---- MODULE Spec2Model ----
(***************************************************************************)
(* Model of tg-sticker-maker-bot (src/src/main.rs).                        *)
(*                                                                         *)
(* Every inbound message is handed to a freshly spawned task that runs     *)
(* `handler` and then sends the handler's reply, if any.  A task is        *)
(* modelled by the record req[r]; its field pc names the await point the   *)
(* task is suspended at.  One action models the code that runs between two *)
(* consecutive await points.  The external collaborators (Telegram API,    *)
(* temporary directory, ffmpeg, image codecs) answer nondeterministically. *)
(* The field log is a history of the external operations the task issued.  *)
(***************************************************************************)
EXTENDS Integers, Sequences, FiniteSets, TLC

\* ------------------------------------------------------------------------
\* Bounds of the model
\* ------------------------------------------------------------------------
MaxRequests == 1      \* inbound messages accepted in a run
NumTmpNames == 2      \* names the temporary directory can hand out
MaxConcurrent == 2    \* tasks alive at once in the runs of concurrent requests

\* ------------------------------------------------------------------------
\* Program constants
\* ------------------------------------------------------------------------
MAX_SIZE == 10 * (2 ^ 20)
MAX_OUTPUT_WEBM_SIZE == 256 * 1000

\* Reply texts of the program
TXT_START == "Hi! Send me an image or a GIF animation, and I'll convert it for use with @Stickers."
TXT_INVALID == "Please send an image or an GIF animation."
TXT_TOO_BIG == "File is too big."
TXT_NOT_IMAGE == "File is not an image!"
TXT_SEND_FAILED == "Failed to send file."
TXT_GENERIC == "Something went wrong."

\* Format tags and names are sequences of characters
WEBP == <<"w", "e", "b", "p">>
PNG == <<"p", "n", "g">>
WEBM == <<"w", "e", "b", "m">>
DOT_GIF == <<".", "g", "i", "f">>
OUT_DOT == <<"o", "u", "t", ".">>

\* Option<T>
None == <<>>
Some(x) == <<x>>
IsSome(o) == o # <<>>
Unwrap(o) == o[1]

\* ------------------------------------------------------------------------
\* String helpers
\* ------------------------------------------------------------------------
\* str::ends_with
EndsWith(s, suf) ==
    /\ Len(s) >= Len(suf)
    /\ SubSeq(s, Len(s) - Len(suf) + 1, Len(s)) = suf

\* Position of the last "." of s, 0 if there is none
LastDot(s) ==
    IF \E i \in 1..Len(s) : s[i] = "."
    THEN CHOOSE i \in 1..Len(s) : s[i] = "." /\ \A j \in (i + 1)..Len(s) : s[j] # "."
    ELSE 0

\* The name with its last extension removed (a leading dot starts no extension)
Stem(s) == IF LastDot(s) > 1 THEN SubSeq(s, 1, LastDot(s) - 1) ELSE s

\* ------------------------------------------------------------------------
\* Inbound messages
\* ------------------------------------------------------------------------
Names ==
    { <<"a", ".", "g", "i", "f">>,
      <<"a", ".", "p", "n", "g">>,
      <<"g", "i", "f">> }

FileNames == {None} \cup {Some(n) : n \in Names}

\* The names of animations: none, or one that does not end in ".gif"
AnimationNames == {None, Some(<<"a", ".", "p", "n", "g">>)}

DeclaredSizes == {MAX_SIZE, MAX_SIZE + 1}

Attachments(id, names) ==
    [file_id : {id}, file_name : names, file_size : DeclaredSizes]

PhotoSizes ==
    { [file_id |-> "p0", width |-> 60, height |-> 34, file_size |-> MAX_SIZE],
      [file_id |-> "p1", width |-> 90, height |-> 51, file_size |-> MAX_SIZE],
      [file_id |-> "p2", width |-> 320, height |-> 512, file_size |-> MAX_SIZE],
      [file_id |-> "p3", width |-> 1280, height |-> 720, file_size |-> MAX_SIZE + 1] }

\* Variant lists: empty, none of 512, the second of 512, the first of two of
\* 512, and lists whose chosen variant is over the size ceiling
PhotoLists ==
    { <<>> } \cup { <<p>> : p \in {x \in PhotoSizes : x.file_id = "p1"} }
    \cup { <<p, q>> : p \in {x \in PhotoSizes : x.file_id = "p0"},
                      q \in {x \in PhotoSizes : x.file_id = "p1"} }
    \cup { <<p, q>> : p \in {x \in PhotoSizes : x.file_id = "p1"},
                      q \in {x \in PhotoSizes : x.file_id \in {"p2", "p3"}} }
    \cup { <<p, q>> : p \in {x \in PhotoSizes : x.file_id = "p2"},
                      q \in {x \in PhotoSizes : x.file_id = "p3"} }

NoMedia == [document |-> None, photo |-> None, animation |-> None, text |-> None]

\* The messages as the Bot API delivers them: one attachment field is set,
\* except that a message with an animation also carries the same file in its
\* document field.
Messages ==
    { [NoMedia EXCEPT !.document = Some(d)] : d \in Attachments("doc", FileNames) }
    \cup { [NoMedia EXCEPT !.photo = Some(l)] : l \in PhotoLists }
    \cup { [NoMedia EXCEPT !.animation = Some(a), !.document = Some(a)] :
             a \in Attachments("ani", AnimationNames) }
    \cup { [NoMedia EXCEPT !.text = Some(t)] : t \in {"/start", "hello"} }
    \cup { NoMedia }

\* The Message type holds a single media kind, decided when the message is
\* parsed: an animation takes precedence over the document that comes with it.
MediaKind(m) ==
    IF IsSome(m.animation) THEN "Animation"
    ELSE IF IsSome(m.document) THEN "Document"
    ELSE IF IsSome(m.photo) THEN "Photo"
    ELSE IF IsSome(m.text) THEN "Text"
    ELSE "Other"

\* The accessors of Message: each yields a value for its own kind only
MsgDocument(m) == IF MediaKind(m) = "Document" THEN m.document ELSE None
MsgPhoto(m) == IF MediaKind(m) = "Photo" THEN m.photo ELSE None
MsgAnimation(m) == IF MediaKind(m) = "Animation" THEN m.animation ELSE None
MsgText(m) == IF MediaKind(m) = "Text" THEN m.text ELSE None

\* ------------------------------------------------------------------------
\* State
\* ------------------------------------------------------------------------
VARIABLES
    req,        \* req[r]: the task handling the r-th inbound message
    files,      \* files existing in the temporary directory: [name, owner]
    running     \* the runtime is up

vars == <<req, files, running>>

TmpNames == 1..NumTmpNames

Idle ==
    [ pc |-> "idle", msg |-> NoMedia, is_video |-> FALSE, file_id |-> "",
      size |-> 0, file_name |-> None, lossy |-> FALSE, path |-> None,
      reply |-> None, log |-> <<>> ]

Finished == {"done", "cancelled", "panicked"}

\* A history event
Ev(op) ==
    [ op |-> op, id |-> "", ok |-> TRUE, lossless |-> FALSE, len |-> 0,
      name |-> <<>>, tag |-> <<>>, text |-> "" ]

Append1(q, e) == [q EXCEPT !.log = Append(@, e)]

Init ==
    /\ req = [r \in 1..MaxRequests |-> Idle]
    /\ files = {}
    /\ running = TRUE


\* ------------------------------------------------------------------------
\* Errors (anyhow::Error): a BadRequest carrying a user-facing text, or any
\* other error carrying diagnostic detail
\* ------------------------------------------------------------------------
BadRequest(m) == [kind |-> "BadRequest", msg |-> m]
OtherError(d) == [kind |-> "Other", msg |-> d]

ERR_TOO_BIG == OtherError("File too big")
ERR_FFMPEG == OtherError("ffmpeg")
ERR_IO == OtherError("io error")
ERR_API == OtherError("request error")
ERR_PNG == OtherError("image error")

\* ------------------------------------------------------------------------
\* TempPath
\* ------------------------------------------------------------------------
\* Variant: the path is kept when the guard goes away
KeepTempPath(q) == q

\* The file is removed when the guard is dropped, which happens when
\* handle_video is left, by return or by the drop of its future
DropTempPath(q) == [q EXCEPT !.path = None]

\* ------------------------------------------------------------------------
\* main: the task's tail after handler returned s
\* ------------------------------------------------------------------------
\* Variant: the text is sent even when it is empty
TaskTailAlways(q, s) ==
    [ Append1(q, [Ev("send_message") EXCEPT !.text = s])
      EXCEPT !.reply = Some(s), !.pc = "send_message" ]

TaskTail(q, s) ==
    IF s # ""
    THEN [ Append1(q, [Ev("send_message") EXCEPT !.text = s])
           EXCEPT !.reply = Some(s), !.pc = "send_message" ]
    ELSE [q EXCEPT !.reply = Some(s), !.pc = "done"]

\* ------------------------------------------------------------------------
\* handler
\* ------------------------------------------------------------------------
\* The photo variant chosen; the list is not empty
PickPhoto(sizes) ==
    IF \E i \in 1..Len(sizes) : sizes[i].width >= 512 \/ sizes[i].height >= 512
    THEN sizes[CHOOSE i \in 1..Len(sizes) :
                 /\ sizes[i].width >= 512 \/ sizes[i].height >= 512
                 /\ \A j \in 1..(i - 1) : ~(sizes[j].width >= 512 \/ sizes[j].height >= 512)]
    ELSE sizes[Len(sizes)]

Media(v, id, sz, fname) ==
    [kind |-> "media", is_video |-> v, file_id |-> id, size |-> sz,
     file_name |-> fname, text |-> ""]

\* Variant: an animation is classified by its filename, as a document is
ClassifyAnimationByName(m) ==
    IF IsSome(MsgDocument(m)) \/ IsSome(MsgAnimation(m))
    THEN LET doc == Unwrap(IF IsSome(MsgDocument(m)) THEN MsgDocument(m) ELSE MsgAnimation(m)) IN
         Media(IF IsSome(doc.file_name)
               THEN EndsWith(Unwrap(doc.file_name), DOT_GIF)
               ELSE FALSE,
               doc.file_id, doc.file_size, doc.file_name)
    ELSE IF IsSome(MsgPhoto(m))
    THEN LET sizes == Unwrap(MsgPhoto(m)) IN
         IF sizes = <<>>
         THEN [Media(FALSE, "", 0, None) EXCEPT !.kind = "panic"]
         ELSE Media(FALSE, PickPhoto(sizes).file_id, PickPhoto(sizes).file_size, None)
    ELSE IF MsgText(m) = Some("/start")
    THEN [Media(FALSE, "", 0, None) EXCEPT !.kind = "reply", !.text = TXT_START]
    ELSE [Media(FALSE, "", 0, None) EXCEPT !.kind = "reply", !.text = TXT_INVALID]


Classify(m) ==
    IF IsSome(MsgDocument(m))
    THEN LET doc == Unwrap(MsgDocument(m)) IN
         Media(IF IsSome(doc.file_name)
               THEN EndsWith(Unwrap(doc.file_name), DOT_GIF)
               ELSE FALSE,
               doc.file_id, doc.file_size, doc.file_name)
    ELSE IF IsSome(MsgPhoto(m))
    THEN LET sizes == Unwrap(MsgPhoto(m)) IN
         IF sizes = <<>>
         THEN [Media(FALSE, "", 0, None) EXCEPT !.kind = "panic"]
         ELSE Media(FALSE, PickPhoto(sizes).file_id, PickPhoto(sizes).file_size, None)
    ELSE IF IsSome(MsgAnimation(m))
    THEN LET ani == Unwrap(MsgAnimation(m)) IN
         Media(TRUE, ani.file_id, ani.file_size, ani.file_name)
    ELSE IF MsgText(m) = Some("/start")
    THEN [Media(FALSE, "", 0, None) EXCEPT !.kind = "reply", !.text = TXT_START]
    ELSE [Media(FALSE, "", 0, None) EXCEPT !.kind = "reply", !.text = TXT_INVALID]

\* Variant: the declared size is compared with twice the ceiling
DeclaredTooBigDoubled(size) == size > 2 * MAX_SIZE

\* The declared-size check
DeclaredTooBig(size) == size > MAX_SIZE

\* Variant: the extension of the declared name is dropped
OutNameStem(file_name, suf) ==
    IF IsSome(file_name)
    THEN Stem(Unwrap(file_name)) \o <<".">> \o suf
    ELSE OUT_DOT \o suf

\* The name of the output document
OutName(file_name, suf) ==
    IF IsSome(file_name)
    THEN Unwrap(file_name) \o <<".">> \o suf
    ELSE OUT_DOT \o suf

\* Variant: the error's own text is the reply
ErrorTextDetail(e) == e.msg

\* The reply for an error of handle_media
ErrorText(e) == IF e.kind = "BadRequest" THEN e.msg ELSE TXT_GENERIC

\* handler, Err arm
HandlerErr(q, e) == TaskTail(q, ErrorText(e))

\* handler, Ok arm, up to the await of send_document
HandlerOk(q, n, suf) ==
    [ Append1(q, [Ev("send_document") EXCEPT
                     !.name = OutName(q.file_name, suf), !.len = n, !.tag = suf])
      EXCEPT !.pc = "send_document" ]

\* handler, from its start to its first await
HandlerStart(q) ==
    LET c == Classify(q.msg) IN
    IF c.kind = "panic" THEN [q EXCEPT !.pc = "panicked"]
    ELSE IF c.kind = "reply" THEN TaskTail(q, c.text)
    ELSE LET q1 == [q EXCEPT !.is_video = c.is_video, !.file_id = c.file_id,
                             !.size = c.size, !.file_name = c.file_name] IN
         IF DeclaredTooBig(c.size)
         THEN TaskTail(q1, TXT_TOO_BIG)
         ELSE [ Append1(q1, [Ev("get_file") EXCEPT !.id = c.file_id])
                EXCEPT !.pc = "get_file" ]

\* ------------------------------------------------------------------------
\* process_image: the downloaded buffer v is described by what the codecs
\* make of it
\* ------------------------------------------------------------------------
ImageFiles ==
    { [len |-> 0, decodes |-> FALSE, webp |-> FALSE, png |-> FALSE, webp_len |-> 0, png_len |-> 0],
      [len |-> 5, decodes |-> FALSE, webp |-> FALSE, png |-> FALSE, webp_len |-> 0, png_len |-> 0],
      [len |-> 900, decodes |-> TRUE, webp |-> TRUE, png |-> TRUE, webp_len |-> 700, png_len |-> 1200],
      [len |-> 60, decodes |-> TRUE, webp |-> FALSE, png |-> TRUE, webp_len |-> 0, png_len |-> 1100],
      [len |-> 61, decodes |-> TRUE, webp |-> FALSE, png |-> FALSE, webp_len |-> 0, png_len |-> 0] }

Ok(n, suf) == [ok |-> TRUE, len |-> n, tag |-> suf, err |-> OtherError("")]
Err(e) == [ok |-> FALSE, len |-> 0, tag |-> <<>>, err |-> e]

\* The codec operations process_image performs on v, in order
ProcessImageLog(v) ==
    IF ~v.decodes
    THEN << [Ev("decode") EXCEPT !.ok = FALSE] >>
    ELSE << Ev("decode"), Ev("resize"), [Ev("webp") EXCEPT !.ok = v.webp] >>
         \o (IF v.webp THEN <<>> ELSE << [Ev("png") EXCEPT !.ok = v.png] >>)

\* Variant: the png fallback keeps the webp tag
ProcessImagePngAsWebp(v) ==
    IF ~v.decodes THEN Err(BadRequest(TXT_NOT_IMAGE))
    ELSE IF v.webp THEN Ok(v.webp_len, WEBP)
    ELSE IF v.png THEN Ok(v.png_len, WEBP)
    ELSE Err(ERR_PNG)

\* Variant: a decode failure is reported as a plain error
ProcessImagePlainError(v) ==
    IF ~v.decodes THEN Err(OtherError(TXT_NOT_IMAGE))
    ELSE IF v.webp THEN Ok(v.webp_len, WEBP)
    ELSE IF v.png THEN Ok(v.png_len, PNG)
    ELSE Err(ERR_PNG)

\* What process_image returns for v
ProcessImage(v) ==
    IF ~v.decodes THEN Err(BadRequest(TXT_NOT_IMAGE))
    ELSE IF v.webp THEN Ok(v.webp_len, WEBP)
    ELSE IF v.png THEN Ok(v.png_len, PNG)
    ELSE Err(ERR_PNG)

\* handler's match on the result of handle_media
HandlerMatch(q, res) ==
    IF res.ok THEN HandlerOk(q, res.len, res.tag) ELSE HandlerErr(q, res.err)

\* ------------------------------------------------------------------------
\* process_video
\* ------------------------------------------------------------------------
\* What an ffmpeg run ends as: wait failed, or an exit status and the
\* captured standard output
OutputLens == {0, MAX_OUTPUT_WEBM_SIZE, MAX_OUTPUT_WEBM_SIZE + 1}

ProcessOutputs ==
    { [wait |-> FALSE, success |-> FALSE, len |-> 0] }
    \cup [wait : {TRUE}, success : {FALSE}, len : {MAX_OUTPUT_WEBM_SIZE + 1}]
    \cup [wait : {TRUE}, success : {TRUE}, len : OutputLens]

\* Variant: the test admits an output of exactly the ceiling
RetryLossyAtCeiling(lossy, len) == ~lossy /\ len >= MAX_OUTPUT_WEBM_SIZE

\* The loop's test on a successful output
RetryLossy(lossy, len) == ~lossy /\ len > MAX_OUTPUT_WEBM_SIZE

\* Variant: every run requests the lossless profile
SpawnFfmpegLossless(q, spawned) ==
    LET q1 == Append1(q, [Ev("ffmpeg") EXCEPT !.lossless = TRUE, !.ok = spawned]) IN
    IF spawned
    THEN [q1 EXCEPT !.pc = "ffmpeg"]
    ELSE HandlerErr(DropTempPath(q1), ERR_IO)

\* One pass through the head of the loop: the command is spawned
SpawnFfmpeg(q, spawned) ==
    LET q1 == Append1(q, [Ev("ffmpeg") EXCEPT !.lossless = ~q.lossy, !.ok = spawned]) IN
    IF spawned
    THEN [q1 EXCEPT !.pc = "ffmpeg"]
    ELSE HandlerErr(DropTempPath(q1), ERR_IO)

\* Variant: a failed lossless run is retried with the lossy profile
AfterFfmpegRetryOnFailure(q, out, spawned) ==
    LET q1 == Append1(q, [Ev("ffmpeg_exit") EXCEPT
                             !.ok = out.wait /\ out.success, !.len = out.len,
                             !.lossless = ~q.lossy]) IN
    IF ~out.wait THEN HandlerErr(DropTempPath(q1), ERR_IO)
    ELSE IF ~out.success /\ q.lossy THEN HandlerErr(DropTempPath(q1), ERR_FFMPEG)
    ELSE IF ~out.success \/ RetryLossy(q.lossy, out.len)
    THEN SpawnFfmpeg([q1 EXCEPT !.lossy = TRUE], TRUE)
    ELSE HandlerMatch(DropTempPath(q1), Ok(out.len, WEBM))

\* The rest of the loop body once the process has ended as out
AfterFfmpeg(q, out, spawned) ==
    LET q1 == Append1(q, [Ev("ffmpeg_exit") EXCEPT
                             !.ok = out.wait /\ out.success, !.len = out.len,
                             !.lossless = ~q.lossy]) IN
    IF ~out.wait THEN HandlerErr(DropTempPath(q1), ERR_IO)
    ELSE IF ~out.success THEN HandlerErr(DropTempPath(q1), ERR_FFMPEG)
    ELSE IF RetryLossy(q.lossy, out.len)
    THEN SpawnFfmpeg([q1 EXCEPT !.lossy = TRUE], spawned)
    ELSE HandlerMatch(DropTempPath(q1), Ok(out.len, WEBM))

\* ------------------------------------------------------------------------
\* handle_media, handle_video, handle_image
\* ------------------------------------------------------------------------
FileSizes == {MAX_SIZE, MAX_SIZE + 1}

\* Variant: a file of exactly the ceiling is refused
ResolvedTooBigInclusive(file_size) == file_size >= MAX_SIZE

ResolvedTooBig(file_size) == file_size > MAX_SIZE

\* handle_video up to the await of File::create; tmp is the name of the
\* temporary file created, if creation succeeded
HandleVideoStart(q, tmp) ==
    IF tmp = None
    THEN HandlerErr(Append1(q, [Ev("tmp_new") EXCEPT !.ok = FALSE]), ERR_IO)
    ELSE [ Append1(Append1(q, Ev("tmp_new")), Ev("file_create"))
           EXCEPT !.path = tmp, !.pc = "file_create" ]

\* handle_image up to the await of download_file
HandleImageStart(q) ==
    [Append1(q, [Ev("download") EXCEPT !.id = q.file_id]) EXCEPT !.pc = "download_image"]

\* handle_media after get_file returned res
HandleMedia(q, res, tmp) ==
    LET q1 == Append1(q, [Ev("get_file_done") EXCEPT !.ok = res.ok, !.len = res.file_size]) IN
    IF ~res.ok THEN HandlerErr(q1, ERR_API)
    ELSE IF ResolvedTooBig(res.file_size) THEN HandlerErr(q1, ERR_TOO_BIG)
    ELSE IF q.is_video THEN HandleVideoStart(q1, tmp)
    ELSE HandleImageStart(q1)

\* ------------------------------------------------------------------------
\* Actions
\* ------------------------------------------------------------------------
\* Variant: the temporary directory does not refuse a name already in use
NoUsedNames == {}

UsedNames == {f.name : f \in files}

\* Task r moves to q; the temporary directory holds r's file exactly while r
\* holds its TempPath
Step(r, q) ==
    /\ req' = [req EXCEPT ![r] = q]
    /\ files' = {f \in files : f.owner # r}
                \cup (IF IsSome(q.path)
                      THEN {[name |-> Unwrap(q.path), owner |-> r]}
                      ELSE {})
    /\ UNCHANGED running

\* Variant: the callback awaits the handling of the earlier messages
ReceiveAfterEarlier(r, m) ==
    /\ running
    /\ req[r].pc = "idle"
    /\ \A o \in 1..(r - 1) : req[o].pc \in Finished
    /\ Step(r, [req[r] EXCEPT !.pc = "spawned", !.msg = m])

\* repl's callback: spawn the handling task and return
Receive(r, m) ==
    /\ running
    /\ req[r].pc = "idle"
    /\ \A o \in 1..(r - 1) : req[o].pc # "idle"
    /\ Step(r, [req[r] EXCEPT !.pc = "spawned", !.msg = m])

\* The task is polled for the first time
Start(r) ==
    /\ running
    /\ req[r].pc = "spawned"
    /\ Step(r, HandlerStart(req[r]))

\* bot.get_file completes
GetFileDone(r) ==
    /\ running
    /\ req[r].pc = "get_file"
    /\ \E res \in [ok : {FALSE}, file_size : {0}] \cup [ok : {TRUE}, file_size : FileSizes],
          tmp \in {None} \cup {Some(p) : p \in TmpNames \ UsedNames} :
          /\ (tmp # None) => (res.ok /\ ~ResolvedTooBig(res.file_size) /\ req[r].is_video)
          /\ Step(r, HandleMedia(req[r], res, tmp))

\* File::create completes
FileCreateDone(r) ==
    /\ running
    /\ req[r].pc = "file_create"
    /\ \E ok \in BOOLEAN :
          LET q == Append1(req[r], [Ev("file_create_done") EXCEPT !.ok = ok]) IN
          Step(r, IF ok
                  THEN [Append1(q, [Ev("download") EXCEPT !.id = q.file_id])
                        EXCEPT !.pc = "download_video"]
                  ELSE HandlerErr(DropTempPath(q), ERR_IO))

\* bot.download_file into the temporary file completes
DownloadVideoDone(r) ==
    /\ running
    /\ req[r].pc = "download_video"
    /\ \E ok \in BOOLEAN :
          LET q == Append1(req[r], [Ev("download_done") EXCEPT !.ok = ok]) IN
          Step(r, IF ok
                  THEN [Append1(q, Ev("flush")) EXCEPT !.pc = "flush"]
                  ELSE HandlerErr(DropTempPath(q), ERR_API))

\* tmp.flush completes; process_video starts
FlushDone(r) ==
    /\ running
    /\ req[r].pc = "flush"
    /\ \E ok \in BOOLEAN, spawned \in BOOLEAN :
          /\ ~ok => spawned
          /\ LET q == Append1(req[r], [Ev("flush_done") EXCEPT !.ok = ok]) IN
             Step(r, IF ok
                     THEN SpawnFfmpeg([q EXCEPT !.lossy = FALSE], spawned)
                     ELSE HandlerErr(DropTempPath(q), ERR_IO))

\* wait_with_output completes
FfmpegDone(r) ==
    /\ running
    /\ req[r].pc = "ffmpeg"
    /\ \E out \in ProcessOutputs, spawned \in BOOLEAN :
          /\ ~spawned => (out.wait /\ out.success /\ RetryLossy(req[r].lossy, out.len))
          /\ Step(r, AfterFfmpeg(req[r], out, spawned))

\* bot.download_file into memory completes; process_image runs to its end
DownloadImageDone(r) ==
    /\ running
    /\ req[r].pc = "download_image"
    /\ \/ Step(r, HandlerErr(Append1(req[r], [Ev("download_done") EXCEPT !.ok = FALSE]),
                               ERR_API))
       \/ \E v \in ImageFiles :
             LET q == Append1(req[r], [Ev("download_done") EXCEPT !.len = v.len]) IN
             Step(r, HandlerMatch([q EXCEPT !.log = @ \o ProcessImageLog(v)],
                                  ProcessImage(v)))

\* bot.send_document completes
SendDocumentDone(r) ==
    /\ running
    /\ req[r].pc = "send_document"
    /\ \E ok \in BOOLEAN :
          LET q == Append1(req[r], [Ev("send_document_done") EXCEPT !.ok = ok]) IN
          Step(r, IF ok THEN TaskTail(q, "") ELSE TaskTail(q, TXT_SEND_FAILED))

\* bot.send_message completes; an error is logged only
SendMessageDone(r) ==
    /\ running
    /\ req[r].pc = "send_message"
    /\ \E ok \in BOOLEAN :
          Step(r, [Append1(req[r], [Ev("send_message_done") EXCEPT !.ok = ok])
                   EXCEPT !.pc = "done"])

\* A task dropped at an await point
Cancelled(q) ==
    IF q.pc \in Finished \cup {"idle"}
    THEN q
    ELSE [DropTempPath(q) EXCEPT !.pc = "cancelled"]

\* The runtime shuts down: every unfinished task is dropped where it is
\* suspended
Shutdown ==
    /\ running
    /\ running' = FALSE
    /\ req' = [r \in DOMAIN req |-> Cancelled(req[r])]
    /\ files' = {f \in files : IsSome(Cancelled(req[f.owner]).path)}

Next ==
    \/ \E r \in DOMAIN req, m \in Messages : Receive(r, m)
    \/ \E r \in DOMAIN req : Start(r)
    \/ \E r \in DOMAIN req : GetFileDone(r)
    \/ \E r \in DOMAIN req : FileCreateDone(r)
    \/ \E r \in DOMAIN req : DownloadVideoDone(r)
    \/ \E r \in DOMAIN req : FlushDone(r)
    \/ \E r \in DOMAIN req : FfmpegDone(r)
    \/ \E r \in DOMAIN req : DownloadImageDone(r)
    \/ \E r \in DOMAIN req : SendDocumentDone(r)
    \/ \E r \in DOMAIN req : SendMessageDone(r)
    \/ Shutdown

Spec == Init /\ [][Next]_vars

\* ------------------------------------------------------------------------
\* Runs of concurrent requests: repl accepts clips while the tasks of the
\* earlier ones are still at their await points, each with a temporary file
\* and an ffmpeg process of its own
\* ------------------------------------------------------------------------
ConcMessages ==
    { m \in Messages :
         /\ MediaKind(m) = "Animation"
         /\ Unwrap(m.animation).file_name = None
         /\ Unwrap(m.animation).file_size = MAX_SIZE }

InitConc ==
    /\ req = [r \in 1..MaxConcurrent |-> Idle]
    /\ files = {}
    /\ running = TRUE

NextConc ==
    \/ \E r \in DOMAIN req, m \in ConcMessages : Receive(r, m)
    \/ \E r \in DOMAIN req : Start(r)
    \/ \E r \in DOMAIN req : GetFileDone(r)
    \/ \E r \in DOMAIN req : FileCreateDone(r)
    \/ \E r \in DOMAIN req : DownloadVideoDone(r)
    \/ \E r \in DOMAIN req : FlushDone(r)
    \/ \E r \in DOMAIN req : FfmpegDone(r)
    \/ \E r \in DOMAIN req : SendDocumentDone(r)
    \/ \E r \in DOMAIN req : SendMessageDone(r)
    \/ Shutdown

SpecConc == InitConc /\ [][NextConc]_vars

\* ========================================================================
\* Properties
\* ========================================================================
Reqs == DOMAIN req

\* The events of a task's history with operation op, in order
Of(q, op) == SelectSeq(q.log, LAMBDA e : e.op = op)

\* The attachment a message declares, read from the message alone
DeclaredAttachment(m) ==
    IF IsSome(m.animation) THEN m.animation
    ELSE IF IsSome(m.document) THEN m.document
    ELSE None

DeclaredName(m) ==
    IF IsSome(DeclaredAttachment(m)) THEN Unwrap(DeclaredAttachment(m)).file_name ELSE None

\* The message carries a file: a document, an animation or a photo variant
CarriesFile(m) ==
    \/ IsSome(DeclaredAttachment(m))
    \/ IsSome(m.photo) /\ Unwrap(m.photo) # <<>>

\* The size the message declares for the file the handler takes from it
DeclaredSize(m) ==
    IF IsSome(DeclaredAttachment(m)) THEN Unwrap(DeclaredAttachment(m)).file_size
    ELSE PickPhoto(Unwrap(m.photo)).file_size

\* handler has run to its first await or return
Begun(q) == q.log # <<>> \/ q.reply # None \/ q.pc = "panicked"

\* ------------------------------------------------------------------------
\* C1: process_video invokes ffmpeg at most twice per request, and a second
\* invocation happens only after a first one that exited successfully with
\* more than 256,000 bytes of captured output.
\* ------------------------------------------------------------------------
C1_AtMostTwoInvocations ==
    \A r \in Reqs :
        LET runs == Of(req[r], "ffmpeg")
            exits == Of(req[r], "ffmpeg_exit") IN
        /\ Len(runs) <= 2
        /\ Len(runs) = 2 => /\ Len(exits) >= 1
                            /\ exits[1].ok
                            /\ exits[1].len > 256000

C1_Witness ==
    \E r \in Reqs :
        /\ Len(Of(req[r], "ffmpeg")) = 2
        /\ Len(Of(req[r], "ffmpeg_exit")) = 2
        /\ req[r].pc = "done"

\* ------------------------------------------------------------------------
\* C2: a request whose declared size exceeds 10 MiB is answered with the
\* too-large text at once: no get_file, no download, no temporary file, no
\* decode and no ffmpeg run ever happens for it.
\* ------------------------------------------------------------------------
C2_OversizeRejectedFirst ==
    \A r \in Reqs :
        LET q == req[r] IN
        (q.pc # "idle" /\ CarriesFile(q.msg) /\ DeclaredSize(q.msg) > 10485760) =>
            /\ \A i \in 1..Len(q.log) : q.log[i].op \in {"send_message", "send_message_done"}
            /\ Begun(q) => q.reply = Some(TXT_TOO_BIG)
            /\ files = {f \in files : f.owner # r}

C2_Witness ==
    \E r \in Reqs :
        /\ CarriesFile(req[r].msg)
        /\ DeclaredSize(req[r].msg) > 10485760
        /\ req[r].pc = "done"
        /\ req[r].reply = Some(TXT_TOO_BIG)

\* ------------------------------------------------------------------------
\* C3: no temporary file of a finished request exists, whichever way the
\* request ended (success, failure of any step, or cancellation).
\* ------------------------------------------------------------------------
C3_TempFileDeleted ==
    \A r \in Reqs :
        req[r].pc \in Finished => \A f \in files : f.owner # r

C3_Witness ==
    \E r \in Reqs :
        /\ req[r].pc = "cancelled"
        /\ Len(Of(req[r], "ffmpeg")) = 1
        /\ Len(Of(req[r], "ffmpeg_exit")) = 0
        /\ \A f \in files : f.owner # r

\* The message is routed to the clip transcoder by the routing rule: it
\* carries an animation, or a document whose name ends in ".gif"
IsClip(m) ==
    \/ IsSome(m.animation)
    \/ /\ IsSome(m.document)
       /\ IsSome(Unwrap(m.document).file_name)
       /\ LET n == Unwrap(Unwrap(m.document).file_name) IN
          /\ Len(n) >= 4
          /\ <<n[Len(n) - 3], n[Len(n) - 2], n[Len(n) - 1], n[Len(n)]>> = <<".", "g", "i", "f">>

\* get_file answered with a size within the ceiling
Resolved(q) ==
    \E i \in 1..Len(q.log) :
        q.log[i].op = "get_file_done" /\ q.log[i].ok /\ q.log[i].len <= 10485760

\* ------------------------------------------------------------------------
\* C4: a message with an animation is routed to the clip transcoder whatever
\* else it carries and whatever its filename; a document named *.gif is
\* routed to the clip transcoder; every other document and every photo is
\* routed to the still-image transcoder.
\* ------------------------------------------------------------------------
C4_Routing ==
    \A r \in Reqs :
        LET q == req[r]
            clip == Len(Of(q, "tmp_new")) > 0
            image == Len(Of(q, "download")) > 0 /\ Len(Of(q, "tmp_new")) = 0 IN
        (CarriesFile(q.msg) /\ Begun(q)) =>
            /\ q.is_video = IsClip(q.msg)
            /\ clip => IsClip(q.msg)
            /\ image => ~IsClip(q.msg)
            /\ Len(Of(q, "ffmpeg")) > 0 => IsClip(q.msg)
            /\ Len(Of(q, "decode")) > 0 => ~IsClip(q.msg)
            /\ Resolved(q) => (clip \/ image)

C4_Witness ==
    \E r \in Reqs :
        /\ IsSome(req[r].msg.animation)
        /\ IsSome(req[r].msg.document)
        /\ DeclaredName(req[r].msg) = Some(<<"a", ".", "p", "n", "g">>)
        /\ Len(Of(req[r], "ffmpeg_exit")) > 0

\* ------------------------------------------------------------------------
\* C5 as stated: the output document is named by the stem of the declared
\* filename, "." and the format tag, or "out." and the tag without a filename.
\* ------------------------------------------------------------------------
C5_StemNaming ==
    \A r \in Reqs :
        \A i \in 1..Len(req[r].log) :
            LET e == req[r].log[i]
                n == DeclaredName(req[r].msg) IN
            e.op = "send_document" =>
                e.name = IF IsSome(n) THEN Stem(Unwrap(n)) \o <<".">> \o e.tag
                         ELSE <<"o", "u", "t", ".">> \o e.tag

\* C5 amended: the output document is named by the whole declared filename,
\* its extension included, followed by "." and the format tag, or "out." and
\* the tag without a filename.
C5_FullNameKept ==
    \A r \in Reqs :
        \A i \in 1..Len(req[r].log) :
            LET e == req[r].log[i]
                n == DeclaredName(req[r].msg) IN
            e.op = "send_document" =>
                e.name = IF IsSome(n) THEN Unwrap(n) \o <<".">> \o e.tag
                         ELSE <<"o", "u", "t", ".">> \o e.tag

C5_Witness ==
    \E r \in Reqs :
        \E i \in 1..Len(req[r].log) :
            /\ req[r].log[i].op = "send_document"
            /\ DeclaredName(req[r].msg) = Some(<<"a", ".", "p", "n", "g">>)
            /\ req[r].log[i].name = <<"a", ".", "p", "n", "g", ".", "w", "e", "b", "p">>

\* Some event of the task's history with operation op did not succeed
Failure(q, op) == \E i \in 1..Len(q.log) : q.log[i].op = op /\ ~q.log[i].ok

\* The request was turned down for its size, at the declared-size check or at
\* the check of the size get_file reports
RejectedDeclared(q) ==
    Begun(q) /\ CarriesFile(q.msg) /\ DeclaredSize(q.msg) > 10485760

RejectedResolved(q) ==
    \E i \in 1..Len(q.log) :
        q.log[i].op = "get_file_done" /\ q.log[i].ok /\ q.log[i].len > 10485760

\* ------------------------------------------------------------------------
\* C6 as stated: a request turned down for its size at either size check is
\* answered with the size-specific text, and the generic text answers only
\* errors other than not-an-image and too-large.
\* ------------------------------------------------------------------------
C6_SizeRejectionText ==
    \A r \in Reqs :
        LET q == req[r] IN
        /\ (RejectedDeclared(q) \/ RejectedResolved(q)) =>
               q.reply = Some("File is too big.")
        /\ q.reply = Some("Something went wrong.") =>
               /\ ~RejectedDeclared(q)
               /\ ~RejectedResolved(q)
               /\ ~Failure(q, "decode")

\* The operations whose failure makes the handling of a request fail
FailureOps ==
    { "get_file_done", "tmp_new", "file_create_done", "download_done", "flush_done",
      "ffmpeg", "ffmpeg_exit", "decode", "png", "send_document_done" }

Failed(q) ==
    \/ RejectedDeclared(q)
    \/ RejectedResolved(q)
    \/ \E op \in FailureOps : Failure(q, op)

\* The text messages of the task that reached the chat: the send_message
\* calls that returned Ok
TextsSent(q) == SelectSeq(q.log, LAMBDA e : e.op = "send_message_done" /\ e.ok)

\* ------------------------------------------------------------------------
\* C7 as stated: for every request whose handling fails, exactly one text
\* message is sent to the chat for it (seen once the task has ended).
\* ------------------------------------------------------------------------
C7_OneTextSentPerFailure ==
    \A r \in Reqs :
        (req[r].pc = "done" /\ Failed(req[r])) => Len(TextsSent(req[r])) = 1

\* ------------------------------------------------------------------------
\* C7 amended: for every request whose handling fails, exactly one
\* send_message call is made for it, with one of the fixed short strings and
\* never the diagnostic detail of the underlying error; the chat gets that
\* one message if the call succeeds and no message if it fails.
\* ------------------------------------------------------------------------
C7_OneFixedTextAttemptPerFailure ==
    \A r \in Reqs :
        LET q == req[r]
            texts == Of(q, "send_message") IN
        /\ Len(texts) <= 1
        /\ \A i \in 1..Len(texts) :
               texts[i].text \in
                   { "Hi! Send me an image or a GIF animation, and I'll convert it for use with @Stickers.",
                     "Please send an image or an GIF animation.",
                     "File is too big.",
                     "File is not an image!",
                     "Failed to send file.",
                     "Something went wrong." }
        /\ Failed(q) =>
               /\ Len(texts) = 1
               /\ texts[1].text \in
                      { "File is too big.", "File is not an image!",
                        "Failed to send file.", "Something went wrong." }
        /\ Len(TextsSent(q)) <= 1
        /\ q.pc = "done" =>
               Len(TextsSent(q)) = (IF Len(texts) = 1 /\ ~Failure(q, "send_message_done")
                                    THEN 1 ELSE 0)

C7_Witness ==
    \E r \in Reqs :
        /\ req[r].pc = "done"
        /\ Failure(req[r], "ffmpeg_exit")
        /\ Len(Of(req[r], "send_message")) = 1
        /\ Of(req[r], "send_message")[1].text = "Something went wrong."
        /\ Len(TextsSent(req[r])) = 1

\* ------------------------------------------------------------------------
\* C8: an ffmpeg run that does not end successfully, the first or the second
\* of a request, ends the request with the generic failure text: no further
\* run follows it and no document is sent, not even the first run's output.
\* ------------------------------------------------------------------------
C8_ToolFailureIsFinal ==
    \A r \in Reqs :
        LET q == req[r] IN
        \A i \in 1..Len(q.log) :
            (q.log[i].op = "ffmpeg_exit" /\ ~q.log[i].ok) =>
                /\ Len(q.log) > i
                /\ q.log[i + 1].op = "send_message"
                /\ q.log[i + 1].text = "Something went wrong."
                /\ q.reply = Some("Something went wrong.")
                /\ \A j \in (i + 1)..Len(q.log) : q.log[j].op # "ffmpeg"
                /\ Len(Of(q, "send_document")) = 0

C8_Witness ==
    \E r \in Reqs :
        LET exits == Of(req[r], "ffmpeg_exit") IN
        /\ Len(exits) = 2
        /\ exits[1].ok
        /\ ~exits[2].ok
        /\ req[r].pc = "done"

\* ------------------------------------------------------------------------
\* C9 as stated: every successful conversion result, of a still image or of a
\* clip, has at least one byte.
\* ------------------------------------------------------------------------
C9_ResultNotEmpty ==
    \A r \in Reqs :
        \A i \in 1..Len(req[r].log) :
            req[r].log[i].op = "send_document" => req[r].log[i].len > 0

\* ------------------------------------------------------------------------
\* C10: the format tag of a result names the encoding path taken, and each
\* request uses one transcoder: "webm" exactly for a request routed to the
\* clip transcoder, "webp" exactly when the webp encode succeeded, "png"
\* exactly when the webp encoder rejected the image and the png fallback was
\* taken; the png fallback runs at most once and never before a webp attempt.
\* ------------------------------------------------------------------------
C10_TagMatchesPath ==
    \A r \in Reqs :
        LET q == req[r]
            docs == Of(q, "send_document")
            webp == Of(q, "webp")
            png == Of(q, "png") IN
        /\ Len(docs) <= 1
        /\ Len(webp) <= 1
        /\ Len(png) <= 1
        /\ ~(Len(Of(q, "ffmpeg")) > 0 /\ Len(Of(q, "decode")) > 0)
        /\ \A i \in 1..Len(q.log) :
               q.log[i].op = "png" =>
                   \E j \in 1..(i - 1) : q.log[j].op = "webp" /\ ~q.log[j].ok
        /\ \A i \in 1..Len(docs) :
               /\ docs[i].tag \in {<<"w", "e", "b", "m">>, <<"w", "e", "b", "p">>, <<"p", "n", "g">>}
               /\ docs[i].tag = <<"w", "e", "b", "m">> <=>
                      (IsClip(q.msg) /\ Len(Of(q, "ffmpeg_exit")) > 0)
               /\ docs[i].tag = <<"w", "e", "b", "p">> <=>
                      (Len(webp) = 1 /\ webp[1].ok)
               /\ docs[i].tag = <<"p", "n", "g">> <=>
                      (Len(webp) = 1 /\ ~webp[1].ok /\ Len(png) = 1 /\ png[1].ok)

C10_Witness ==
    \E r \in Reqs :
        /\ Len(Of(req[r], "send_document")) = 1
        /\ Of(req[r], "send_document")[1].tag = <<"p", "n", "g">>
        /\ req[r].pc = "done"

\* Some event of the task's history with operation op succeeded
Success(q, op) == \E i \in 1..Len(q.log) : q.log[i].op = op /\ q.log[i].ok

\* ------------------------------------------------------------------------
\* C11 as stated: once a downloaded buffer has decoded as an image,
\* process_image returns a success tagged "webp" or "png"; no encode step,
\* the png fallback included, makes the request fail.
\* ------------------------------------------------------------------------
C11_DecodedImageNeverFails ==
    \A r \in Reqs :
        LET q == req[r]
            docs == Of(q, "send_document") IN
        Success(q, "decode") =>
            /\ Len(docs) = 1
            /\ docs[1].tag \in {<<"w", "e", "b", "p">>, <<"p", "n", "g">>}
            /\ ~Failure(q, "png")

\* ------------------------------------------------------------------------
\* C12: a buffer on the still-image path that fails detection or decoding,
\* the empty buffer included, yields the NotAnImage error: no encode is
\* attempted and the reply is "File is not an image!", not the generic text.
\* ------------------------------------------------------------------------
C12_UndecodableIsNotAnImage ==
    \A r \in Reqs :
        LET q == req[r]
            texts == Of(q, "send_message") IN
        Failure(q, "decode") =>
            /\ Len(Of(q, "resize")) = 0
            /\ Len(Of(q, "webp")) = 0
            /\ Len(Of(q, "png")) = 0
            /\ Len(Of(q, "send_document")) = 0
            /\ q.reply = Some("File is not an image!")
            /\ Len(texts) = 1
            /\ texts[1].text = "File is not an image!"

C12_Witness ==
    \E r \in Reqs :
        /\ Failure(req[r], "decode")
        /\ \E i \in 1..Len(req[r].log) :
               req[r].log[i].op = "download_done" /\ req[r].log[i].ok /\ req[r].log[i].len = 0
        /\ Len(TextsSent(req[r])) = 1

\* ------------------------------------------------------------------------
\* C15: the first ffmpeg run requests the lossless profile and the second
\* does not; the bytes handed on are those of the last run: the first run's
\* when it succeeded with at most 256,000 bytes (256,000 itself is accepted,
\* no second run), else the second run's whenever it exits successfully,
\* of whatever size.
\* ------------------------------------------------------------------------
C15_LosslessThenLossy ==
    \A r \in Reqs :
        LET q == req[r]
            runs == Of(q, "ffmpeg")
            exits == Of(q, "ffmpeg_exit")
            docs == Of(q, "send_document") IN
        /\ Len(runs) >= 1 => runs[1].lossless
        /\ Len(runs) >= 2 => ~runs[2].lossless
        /\ (Len(exits) >= 1 /\ exits[1].ok /\ exits[1].len <= 256000) =>
              /\ Len(runs) = 1
              /\ Len(docs) = 1
              /\ docs[1].len = exits[1].len
              /\ docs[1].tag = <<"w", "e", "b", "m">>
        /\ (Len(exits) >= 1 /\ ~(exits[1].ok /\ exits[1].len <= 256000)
              /\ Len(exits) >= 2 /\ exits[2].ok) =>
              /\ Len(docs) = 1
              /\ docs[1].len = exits[2].len
              /\ docs[1].tag = <<"w", "e", "b", "m">>
        /\ (Len(exits) >= 1 /\ Len(docs) = 1) =>
              /\ exits[Len(exits)].ok
              /\ docs[1].len = exits[Len(exits)].len

C15_Witness ==
    \E r \in Reqs :
        LET exits == Of(req[r], "ffmpeg_exit")
            docs == Of(req[r], "send_document") IN
        /\ Len(exits) = 2
        /\ exits[2].ok
        /\ exits[2].len > 256000
        /\ Len(docs) = 1
        /\ docs[1].len = exits[2].len

\* ------------------------------------------------------------------------
\* C16: a download is started, a temporary file created or a transcoder
\* invoked only when the declared size and the size get_file reported are
\* both at most 10 MiB; sizes of exactly 10 MiB pass both checks.
\* ------------------------------------------------------------------------
WorkOps == {"download", "tmp_new", "file_create", "ffmpeg", "decode", "resize", "webp", "png"}

C16_NoWorkOverCeiling ==
    \A r \in Reqs :
        LET q == req[r] IN
        /\ \A i \in 1..Len(q.log) :
              q.log[i].op \in WorkOps =>
                 /\ DeclaredSize(q.msg) <= 10485760
                 /\ \E j \in 1..(i - 1) :
                       /\ q.log[j].op = "get_file_done"
                       /\ q.log[j].ok
                       /\ q.log[j].len <= 10485760
        /\ \A j \in 1..Len(q.log) :
              ( /\ q.log[j].op = "get_file_done"
                /\ q.log[j].ok
                /\ q.log[j].len = 10485760
                /\ DeclaredSize(q.msg) = 10485760 ) =>
                 /\ j < Len(q.log)
                 /\ q.log[j + 1].op \in {"download", "tmp_new"}
        /\ \A f \in files : Len(Of(req[f.owner], "tmp_new")) = 1

C16_Witness ==
    \E r \in Reqs :
        LET q == req[r] IN
        /\ CarriesFile(q.msg)
        /\ DeclaredSize(q.msg) = 10485760
        /\ \E j \in 1..Len(q.log) :
              q.log[j].op = "get_file_done" /\ q.log[j].ok /\ q.log[j].len = 10485760
        /\ Success(q, "download_done")
        /\ Len(Of(q, "ffmpeg")) + Len(Of(q, "decode")) >= 1

\* ------------------------------------------------------------------------
\* C17: when the conversion succeeded and send_document succeeded, exactly
\* one document and no text message is sent; a text message is sent only
\* when handler returned a non-empty string; send_document is attempted only
\* after a successful conversion.
\* ------------------------------------------------------------------------
C17_DocumentOrText ==
    \A r \in Reqs :
        LET q == req[r]
            docs == Of(q, "send_document")
            texts == Of(q, "send_message") IN
        /\ Success(q, "send_document_done") =>
              /\ Len(docs) = 1
              /\ Len(texts) = 0
              /\ q.pc \in {"done", "cancelled"}
        /\ Len(texts) >= 1 =>
              /\ Len(texts) = 1
              /\ IsSome(q.reply)
              /\ Unwrap(q.reply) # ""
              /\ texts[1].text = Unwrap(q.reply)
        /\ \A i \in 1..Len(q.log) :
              q.log[i].op = "send_document" =>
                 /\ i > 1
                 /\ q.log[i - 1].op \in {"ffmpeg_exit", "webp", "png"}
                 /\ q.log[i - 1].ok
                 /\ Len(docs) = 1

C17_Witness ==
    \E r \in Reqs :
        /\ Success(req[r], "send_document_done")
        /\ req[r].pc = "done"
        /\ req[r].reply = Some("")

\* ------------------------------------------------------------------------
\* C18 as stated: for a photo the variant size-checked, downloaded and
\* converted is the first in list order of width or height at least 512, or
\* the last of the list when none is; and handler yields a reply or a
\* document for every photo message, the one with no variant included.
\* ------------------------------------------------------------------------
\* The position the claim names in a list of variants that is not empty
ClaimedVariant(sizes) ==
    LET big == {i \in 1..Len(sizes) : sizes[i].width >= 512 \/ sizes[i].height >= 512} IN
    IF big = {} THEN Len(sizes)
    ELSE CHOOSE i \in big : \A j \in big : i <= j

C18_VariantSelected ==
    \A r \in Reqs :
        LET q == req[r] IN
        (MediaKind(q.msg) = "Photo" /\ Unwrap(q.msg.photo) # <<>> /\ Begun(q)) =>
            LET v == Unwrap(q.msg.photo)[ClaimedVariant(Unwrap(q.msg.photo))] IN
            /\ q.size = v.file_size
            /\ q.file_id = v.file_id
            /\ ~q.is_video
            /\ (v.file_size > 10485760) = (Len(Of(q, "get_file")) = 0)
            /\ \A i \in 1..Len(q.log) :
                  q.log[i].op \in {"get_file", "download"} => q.log[i].id = v.file_id

C18_PhotoAnswered ==
    \A r \in Reqs :
        LET q == req[r] IN
        (MediaKind(q.msg) = "Photo" /\ Begun(q)) =>
            \/ Len(Of(q, "send_document")) = 1
            \/ IsSome(q.reply) /\ Unwrap(q.reply) # ""
            \/ q.pc \notin Finished
            \/ q.pc = "cancelled"

C18_PhotoVariantAndAnswer == C18_VariantSelected /\ C18_PhotoAnswered

\* ------------------------------------------------------------------------
\* C19 as stated: a task that has ended has sent one document, or sent one
\* text message, or sent nothing only because its send_message failed; and
\* process_video has made at most two passes.
\* ------------------------------------------------------------------------
C19_EndsHavingAnswered ==
    \A r \in Reqs :
        LET q == req[r] IN
        /\ Len(Of(q, "ffmpeg")) <= 2
        /\ q.pc \in {"done", "panicked"} =>
              \/ Success(q, "send_document_done") /\ Len(Of(q, "send_document")) = 1
              \/ Success(q, "send_message_done") /\ Len(Of(q, "send_message")) = 1
              \/ Failure(q, "send_message_done")

\* ------------------------------------------------------------------------
\* C13: accepting a message waits for no request: the callback returns once
\* the task is spawned, before handler has run, and while the bot runs a new
\* message can be accepted whatever await points the earlier tasks are
\* suspended at, a process that never ends included.
\* ------------------------------------------------------------------------
C13_AcceptNeverWaits ==
    /\ (running /\ \E r \in Reqs : req[r].pc = "idle") =>
          ENABLED (\E r \in Reqs, m \in ConcMessages : Receive(r, m))
    /\ \A r \in Reqs :
          req[r].pc = "spawned" => (req[r].log = <<>> /\ req[r].reply = None)

C13_Witness ==
    \E r, p \in Reqs :
        /\ req[r].pc = "ffmpeg"
        /\ Len(Of(req[r], "ffmpeg")) = 2
        /\ req[p].pc = "spawned"
        /\ r < p

\* ------------------------------------------------------------------------
\* C14: concurrent requests share no mutable state: no two live requests
\* hold the same temporary file; a step of one task reads and writes that
\* task's own state only, so it is a step the task makes when it runs alone
\* with the same external-call result, and it leaves every other task and
\* every other task's temporary file as they were.
\* ------------------------------------------------------------------------
\* A task's state without the name of its temporary file
Anon(q) == [q EXCEPT !.path = IF IsSome(@) THEN Some(0) ELSE None]

\* The task moves from q to t as it does when it runs alone, for some result
\* of the external call it is waiting for; the name of the temporary file
\* apart
AloneStep(q, t) ==
    LET is(s) == Anon(s) = Anon(t)
        fail(op, err) ==
            HandlerErr(DropTempPath(Append1(q, [Ev(op) EXCEPT !.ok = FALSE])), err)
    IN
    CASE q.pc = "idle" ->
            \E m \in ConcMessages : is([q EXCEPT !.pc = "spawned", !.msg = m])
      [] q.pc = "spawned" -> is(HandlerStart(q))
      [] q.pc = "get_file" ->
            \/ is(HandleMedia(q, [ok |-> FALSE, file_size |-> 0], None))
            \/ \E n \in FileSizes, tmp \in {None, Some(0)} :
                  is(HandleMedia(q, [ok |-> TRUE, file_size |-> n], tmp))
      [] q.pc = "file_create" ->
            \/ is(fail("file_create_done", ERR_IO))
            \/ is([Append1(Append1(q, Ev("file_create_done")),
                           [Ev("download") EXCEPT !.id = q.file_id])
                   EXCEPT !.pc = "download_video"])
      [] q.pc = "download_video" ->
            \/ is(fail("download_done", ERR_API))
            \/ is([Append1(Append1(q, Ev("download_done")), Ev("flush"))
                   EXCEPT !.pc = "flush"])
      [] q.pc = "flush" ->
            \/ is(fail("flush_done", ERR_IO))
            \/ \E s \in BOOLEAN :
                  is(SpawnFfmpeg([Append1(q, Ev("flush_done")) EXCEPT !.lossy = FALSE], s))
      [] q.pc = "ffmpeg" ->
            \E out \in ProcessOutputs, s \in BOOLEAN : is(AfterFfmpeg(q, out, s))
      [] q.pc = "download_image" ->
            \/ is(HandlerErr(Append1(q, [Ev("download_done") EXCEPT !.ok = FALSE]), ERR_API))
            \/ \E v \in ImageFiles :
                  is(HandlerMatch([Append1(q, [Ev("download_done") EXCEPT !.len = v.len])
                                   EXCEPT !.log = @ \o ProcessImageLog(v)],
                                  ProcessImage(v)))
      [] q.pc = "send_document" ->
            \/ is(TaskTail(Append1(q, Ev("send_document_done")), ""))
            \/ is(TaskTail(Append1(q, [Ev("send_document_done") EXCEPT !.ok = FALSE]),
                           TXT_SEND_FAILED))
      [] q.pc = "send_message" ->
            \E ok \in BOOLEAN :
               is([Append1(q, [Ev("send_message_done") EXCEPT !.ok = ok]) EXCEPT !.pc = "done"])
      [] OTHER -> FALSE

LiveFilesDistinct ==
    /\ \A r, o \in Reqs :
          (r # o /\ IsSome(req[r].path) /\ IsSome(req[o].path)) => req[r].path # req[o].path
    /\ \A f, g \in files : f.name = g.name => f.owner = g.owner
    /\ \A r \in Reqs :
          LET mine == {f \in files : f.owner = r} IN
          IF IsSome(req[r].path)
          THEN mine = {[name |-> Unwrap(req[r].path), owner |-> r]}
          ELSE mine = {}

OwnStateOnly ==
    \A r \in Reqs :
        req'[r] # req[r] =>
            /\ \/ ~running' /\ req'[r] = Cancelled(req[r])
               \/ AloneStep(req[r], req'[r])
            /\ running' =>
                  \A o \in Reqs \ {r} :
                      /\ req'[o] = req[o]
                      /\ {f \in files' : f.owner = o} = {f \in files : f.owner = o}

C14_NoSharedState == []LiveFilesDistinct /\ [][OwnStateOnly]_vars

C14_Witness ==
    \E r, o \in Reqs :
        /\ r # o
        /\ req[r].pc = "ffmpeg"
        /\ req[o].pc \in {"ffmpeg", "download_video"}
        /\ IsSome(req[r].path)
        /\ IsSome(req[o].path)
        /\ Cardinality(files) = 2

====
